---- MODULE Spec2Model ----
(***************************************************************************)
(* Model of the `llm sort` command (src/llm_sort.py): the bias-mitigated   *)
(* pairwise comparator and the three ranking strategies (allpair, sorting, *)
(* sliding), the top-k truncation and the output loop.                     *)
(*                                                                         *)
(* Indices (i, j, k, start, l, r) keep the 0-based values of the Python    *)
(* code; At(s, idx) reads element idx of a 0-based list.  Scores are kept  *)
(* in half points (the float 0.5 is 1, the float 1.0 is 2), which is exact *)
(* because every score is a multiple of 0.5.                               *)
(***************************************************************************)
EXTENDS Integers, Sequences, FiniteSets, TLC

\* ------------------------------------------------------------------ bounds
MaxN == 4          \* largest number of retained input lines
MaxTopK == 5       \* largest --top-k value
MaxNegTopK == 1    \* --top-k ranges down to -MaxNegTopK

\* ------------------------------------------------- strings as char lists
line_a == <<"l", "i", "n", "e", " ", "a">>
line_b == <<"l", "i", "n", "e", " ", "b">>

Whitespace == {" ", "\n", "\t"}

\* str.lower() on one character (the letters the responses use)
LowerChar(c) ==
    CASE c = "L" -> "l" [] c = "I" -> "i" [] c = "N" -> "n" [] c = "E" -> "e"
      [] c = "A" -> "a" [] c = "B" -> "b" [] c = "C" -> "c" [] c = "T" -> "t"
      [] OTHER -> c

lower(s) == [x \in 1..Len(s) |-> LowerChar(s[x])]

RECURSIVE lstrip(_)
lstrip(s) == IF s # <<>> /\ Head(s) \in Whitespace THEN lstrip(Tail(s)) ELSE s

RECURSIVE rstrip(_)
rstrip(s) ==
    IF s # <<>> /\ s[Len(s)] \in Whitespace
    THEN rstrip(SubSeq(s, 1, Len(s) - 1))
    ELSE s

strip(s) == rstrip(lstrip(s))

startswith(s, prefix) ==
    /\ Len(s) >= Len(prefix)
    /\ SubSeq(s, 1, Len(prefix)) = prefix

\* --------------------------------------------------- raw oracle responses
R_LineA        == <<"L", "i", "n", "e", " ", "A">>
R_LineB        == <<"L", "i", "n", "e", " ", "B">>
R_lineA_lc     == <<"l", "i", "n", "e", " ", "a">>
R_LINEB_pad    == <<" ", "L", "I", "N", "E", " ", "B", ".", "\n">>
R_LineA_more   == <<"\n", "L", "i", "n", "e", " ", "A", " ", "i", "s", " ", "i", "t">>
R_Empty        == <<>>
R_Blank        == <<" ", "\n">>
R_Line         == <<"L", "i", "n", "e">>
R_LineC        == <<"L", "i", "n", "e", " ", "C">>
R_A            == <<"A">>
R_ItIsLineB    == <<"I", "t", " ", "i", "s", " ", "L", "i", "n", "e", " ", "B">>
R_LineTabA     == <<"L", "i", "n", "e", "\t", "A">>

\* every raw text the oracle may return in the comparator specification
Responses ==
    {R_LineA, R_LineB, R_lineA_lc, R_LINEB_pad, R_LineA_more, R_Empty,
     R_Blank, R_Line, R_LineC, R_A, R_ItIsLineB, R_LineTabA}

\* the raw texts the stub oracles of the ranking specification return
StubResponses == {R_LineA, R_LineB, R_LineC}

\* -------------------------------------------------------------- comparator
pairwise_decision_first_only(raw1, raw2) ==
    LET resp1 == lower(strip(raw1))
    IN  IF startswith(resp1, line_a) THEN 1
        ELSE IF startswith(resp1, line_b) THEN -1
        ELSE 0

\* 1: first line preferred, -1: second line preferred, 0: tie or inconclusive
pairwise_decision(raw1, raw2) ==
    LET response1 == strip(raw1)
        response2 == strip(raw2)
        resp1 == lower(response1)
        resp2 == lower(response2)
    IN  IF startswith(resp1, line_a) /\ startswith(resp2, line_b) THEN 1
        ELSE IF startswith(resp1, line_b) /\ startswith(resp2, line_a) THEN -1
        ELSE 0

\* ------------------------------------------------------------ program state
VARIABLES
    documents,      \* list of units {id, content, score}, in input order
    method,         \* --method: "allpair", "sorting" or "sliding"
    top_k,          \* --top-k
    oracle,         \* behaviour of the model behind model_obj.prompt
    pc,             \* position of the command in sort()
    i, j,           \* loop indices of the allpair and sliding loops
    pass,           \* sliding: number of completed passes (loop variable _)
    sorted_docs,    \* the list sorted_docs
    ranking,        \* value of sorted_docs when the strategy finished
    output,         \* lines written to standard output so far
    pairs,          \* allpair: the index pairs compared so far, in order
    cmp_calls,      \* completed calls of pairwise_decision
    oracle_calls,   \* calls of model_obj.prompt(...).text(), failed included
    oracle_failed,  \* a call of model_obj.prompt raised
    sp,             \* sorting: phase of list.sort ("count_run", "binarysort")
    k,              \* sorting: index scanned by count_run / start of binarysort
    descending,     \* sorting: count_run found a descending run
    l, r,           \* sorting: the bounds of the binary search of binarysort
    raw1, raw2,     \* comparator: the texts returned by the two prompts
    decision,       \* comparator: the value returned by pairwise_decision
    dpc             \* comparator: position inside pairwise_decision

vars == <<documents, method, top_k, oracle, pc, i, j, pass, sorted_docs,
          ranking, output, pairs, cmp_calls, oracle_calls, oracle_failed,
          sp, k, descending, l, r, raw1, raw2, decision, dpc>>

rankVars == <<documents, method, top_k, oracle, pc, i, j, pass, sorted_docs,
              ranking, output, pairs, cmp_calls, oracle_calls, oracle_failed,
              sp, k, descending, l, r>>

cmpVars == <<raw1, raw2, decision, dpc>>

sortVars == <<sp, k, descending, l, r>>

\* ------------------------------------------------------------ list helpers
At(s, idx) == s[idx + 1]

Reverse(s) == [x \in 1..Len(s) |-> s[Len(s) + 1 - x]]

\* s[lo:hi] of Python for 0 <= lo <= hi <= len(s)
Slice(s, lo, hi) == SubSeq(s, lo + 1, hi)

\* the list after `s[a], s[b] = s[b], s[a]`
swap_overwrite(s, a, b) == [s EXCEPT ![a + 1] = s[b + 1]]

Swap(s, a, b) == [s EXCEPT ![a + 1] = s[b + 1], ![b + 1] = s[a + 1]]

\* the score of a unit that no strategy has scored (the key is absent)
NoScore == -1
ScoreHalf == 1
ScoreOne == 2

Methods == {"allpair", "sorting", "sliding"}
TopKs == (0 - MaxNegTopK)..MaxTopK
OracleKinds == {"arbitrary", "total_order", "always_tie"}

\* the units built from the retained lines: id is the index of the line
MakeDocuments(lines) ==
    [x \in 1..Len(lines) |-> [id |-> x - 1, content |-> lines[x], score |-> NoScore]]

Perms(n) == {f \in [1..n -> 1..n] : \A a, b \in 1..n : f[a] = f[b] => a = b}

\* the retained lines of a run: line contents are the numbers 1..n
InputLines(kind, n) ==
    IF kind = "total_order"
    THEN Perms(n)
    ELSE {[x \in 1..n |-> x], [x \in 1..n |-> 1]}

\* ------------------------------------------------------------------ oracle
\* The stub model of the total order: the larger content is the more relevant
MoreRelevant(a, b) == a > b

\* answer of the total-order stub to the prompt with docA = a, docB = b
Judge(a, b) == IF MoreRelevant(a, b) THEN R_LineA ELSE R_LineB

\* the pairs <<response to (a, b), response to (b, a)>> the model may give
OracleReplies(kind, a, b) ==
    CASE kind = "total_order" -> {<<Judge(a, b), Judge(b, a)>>}
      [] kind = "always_tie"  ->
            {rr \in StubResponses \X StubResponses :
                ~(\E x \in {1, 2} : startswith(lower(strip(rr[x])), line_a))
                \/ ~(\E x \in {1, 2} : startswith(lower(strip(rr[x])), line_b))}
      [] OTHER -> StubResponses \X StubResponses

\* where sort() continues when model_obj.prompt raises: nothing catches it
error_caught(at) == "truncate"

on_oracle_error(at) == "aborted"

\* ----------------------------------------------------------- initial state
SortIdle ==
    /\ sp = "idle" /\ k = 0 /\ descending = FALSE /\ l = 0 /\ r = 0

CmpIdle ==
    /\ raw1 = <<>> /\ raw2 = <<>> /\ decision = 0 /\ dpc = "idle"

\* sort() after the input was read and the model was initialised (line 119)
Init ==
    /\ oracle \in OracleKinds
    /\ \E n \in 1..MaxN : \E lines \in InputLines(oracle, n) :
          documents = MakeDocuments(lines)
    /\ method \in Methods
    /\ top_k \in TopKs
    /\ pc = "start"
    /\ i = 0 /\ j = 0 /\ pass = 0
    /\ sorted_docs = <<>>
    /\ ranking = <<>>
    /\ output = <<>>
    /\ pairs = <<>>
    /\ cmp_calls = 0 /\ oracle_calls = 0 /\ oracle_failed = FALSE
    /\ SortIdle
    /\ CmpIdle

\* --------------------------------------------------------------- allpair
\* lines 124-127: every score is set to 0.0, the loops start at (0, 1)
AllpairStart ==
    /\ pc = "start" /\ method = "allpair"
    /\ documents' = [x \in 1..Len(documents) |-> [documents[x] EXCEPT !.score = 0]]
    /\ i' = 0 /\ j' = 1
    /\ pc' = "allpair"
    /\ UNCHANGED <<method, top_k, oracle, pass, sorted_docs, ranking, output,
                   pairs, cmp_calls, oracle_calls, oracle_failed>>
    /\ UNCHANGED sortVars /\ UNCHANGED cmpVars

tie_scores_first_only(docs, a, b, d) ==
    IF d = 1 THEN [docs EXCEPT ![a + 1].score = @ + ScoreOne]
    ELSE IF d = -1 THEN [docs EXCEPT ![b + 1].score = @ + ScoreOne]
    ELSE [docs EXCEPT ![a + 1].score = @ + ScoreHalf]

\* lines 131-137: the scores after the decision d for the pair (a, b)
add_scores(docs, a, b, d) ==
    IF d = 1 THEN [docs EXCEPT ![a + 1].score = @ + ScoreOne]
    ELSE IF d = -1 THEN [docs EXCEPT ![b + 1].score = @ + ScoreOne]
    ELSE [docs EXCEPT ![a + 1].score = @ + ScoreHalf,
                      ![b + 1].score = @ + ScoreHalf]

\* lines 128-137: one iteration of the inner loop
AllpairCompare ==
    /\ pc = "allpair" /\ j < Len(documents)
    /\ \E rr \in OracleReplies(oracle, At(documents, i).content, At(documents, j).content) :
          documents' = add_scores(documents, i, j, pairwise_decision(rr[1], rr[2]))
    /\ pairs' = Append(pairs, <<i, j>>)
    /\ cmp_calls' = cmp_calls + 1
    /\ oracle_calls' = oracle_calls + 2
    /\ IF j + 1 < Len(documents)
       THEN i' = i /\ j' = j + 1
       ELSE i' = i + 1 /\ j' = i + 2
    /\ UNCHANGED <<method, top_k, oracle, pc, pass, sorted_docs, ranking,
                   output, oracle_failed>>
    /\ UNCHANGED sortVars /\ UNCHANGED cmpVars

\* insertion of d into a list sorted by ascending score, after its equals
RECURSIVE insert_by_score(_, _)
insert_by_score(sorted, d) ==
    IF sorted = <<>> THEN <<d>>
    ELSE IF d.score < Head(sorted).score THEN <<d>> \o sorted
    ELSE <<Head(sorted)>> \o insert_by_score(Tail(sorted), d)

\* a stable sort by ascending score
RECURSIVE stable_sort_by_score(_)
stable_sort_by_score(docs) ==
    IF docs = <<>> THEN <<>>
    ELSE insert_by_score(stable_sort_by_score(SubSeq(docs, 1, Len(docs) - 1)),
                         docs[Len(docs)])

sorted_then_reversed(docs) == Reverse(stable_sort_by_score(docs))

\* sorted(documents, key=score, reverse=True): list.sort reverses the list,
\* sorts it stably and reverses the result
sorted_by_score_reverse(docs) ==
    Reverse(stable_sort_by_score(Reverse(docs)))

\* line 138, reached when the loops of lines 128-129 are exhausted
AllpairSort ==
    /\ pc = "allpair" /\ j >= Len(documents)
    /\ sorted_docs' = sorted_by_score_reverse(documents)
    /\ ranking' = sorted_docs'
    /\ pc' = "truncate"
    /\ UNCHANGED <<documents, method, top_k, oracle, i, j, pass, output, pairs,
                   cmp_calls, oracle_calls, oracle_failed>>
    /\ UNCHANGED sortVars /\ UNCHANGED cmpVars

\* --------------------------------------------------------------- sliding
\* range(top_k or n): the number of passes of line 156
num_passes(tk, n) ==
    LET stop == IF tk # 0 THEN tk ELSE n
    IN  IF stop > 0 THEN stop ELSE 0

\* lines 154-155
SlidingStart ==
    /\ pc = "start" /\ method = "sliding"
    /\ sorted_docs' = documents
    /\ pass' = 0
    /\ i' = Len(documents) - 2
    /\ pc' = "sliding"
    /\ UNCHANGED <<documents, method, top_k, oracle, j, ranking, output, pairs,
                   cmp_calls, oracle_calls, oracle_failed>>
    /\ UNCHANGED sortVars /\ UNCHANGED cmpVars

swap_if_first(d) == d = 1

swap_unless_first(d) == d # 1

\* line 160: the decision that exchanges the two neighbours
swap_decision(d) == d = -1

\* lines 158-161: one iteration of the inner loop of a pass
SlidingCompare ==
    /\ pc = "sliding"
    /\ pass < num_passes(top_k, Len(documents))
    /\ i >= 0
    /\ \E rr \in OracleReplies(oracle, At(sorted_docs, i).content,
                                       At(sorted_docs, i + 1).content) :
          sorted_docs' = IF swap_decision(pairwise_decision(rr[1], rr[2]))
                         THEN Swap(sorted_docs, i, i + 1)
                         ELSE sorted_docs
    /\ cmp_calls' = cmp_calls + 1
    /\ oracle_calls' = oracle_calls + 2
    /\ IF i > 0
       THEN i' = i - 1 /\ pass' = pass
       ELSE i' = Len(documents) - 2 /\ pass' = pass + 1
    /\ UNCHANGED <<documents, method, top_k, oracle, pc, j, ranking, output,
                   pairs, oracle_failed>>
    /\ UNCHANGED sortVars /\ UNCHANGED cmpVars

\* a pass over a single unit: reversed(range(0)) is empty
SlidingEmptyPass ==
    /\ pc = "sliding"
    /\ pass < num_passes(top_k, Len(documents))
    /\ i < 0
    /\ pass' = pass + 1
    /\ UNCHANGED <<documents, method, top_k, oracle, pc, i, j, sorted_docs,
                   ranking, output, pairs, cmp_calls, oracle_calls, oracle_failed>>
    /\ UNCHANGED sortVars /\ UNCHANGED cmpVars

\* the loop of line 156 is exhausted
SlidingDone ==
    /\ pc = "sliding"
    /\ pass >= num_passes(top_k, Len(documents))
    /\ ranking' = sorted_docs
    /\ pc' = "truncate"
    /\ UNCHANGED <<documents, method, top_k, oracle, i, j, pass, sorted_docs,
                   output, pairs, cmp_calls, oracle_calls, oracle_failed>>
    /\ UNCHANGED sortVars /\ UNCHANGED cmpVars

\* --------------------------------------------------------------- sorting
compare_docs_inverted(d) ==
    IF d = 1 THEN 1 ELSE IF d = -1 THEN -1 ELSE 0

\* lines 142-149: the three-way result for the decision d of (a, b)
compare_docs(d) ==
    IF d = 1 THEN -1 ELSE IF d = -1 THEN 1 ELSE 0

\* cmp_to_key: K(a) < K(b) is compare_docs(a, b) < 0
key_lt(d) == compare_docs(d) < 0

\* list.sort: the list with its first m elements reversed (a descending run)
reverse_run(s, m) == Reverse(Slice(s, 0, m)) \o Slice(s, m, Len(s))

\* list.sort, binarysort: the element at index from moved to index to <= from
move_to(s, from, to) ==
    Slice(s, 0, to) \o <<At(s, from)>> \o Slice(s, to, from)
        \o Slice(s, from + 1, Len(s))

\* line 150: sorted() copies the list; a list of fewer than 2 elements is
\* returned without a comparison
SortingStart ==
    /\ pc = "start" /\ method = "sorting"
    /\ sorted_docs' = documents
    /\ pc' = "sorting"
    /\ IF Len(documents) < 2
       THEN sp' = "sorted" /\ k' = 0
       ELSE sp' = "count_run" /\ k' = 1
    /\ UNCHANGED <<documents, method, top_k, oracle, i, j, pass, ranking,
                   output, pairs, cmp_calls, oracle_calls, oracle_failed,
                   descending, l, r>>
    /\ UNCHANGED cmpVars

\* list.sort, count_run: one comparison of the scan for the initial run.
\* The first comparison decides whether the run is descending; the run ends
\* at the first neighbour pair that breaks it, a descending run is reversed,
\* and the rest of the list (fewer than 64 elements) goes to binarysort.
SortingCountRun ==
    /\ pc = "sorting" /\ sp = "count_run"
    /\ \E rr \in OracleReplies(oracle, At(sorted_docs, k).content,
                                       At(sorted_docs, k - 1).content) :
          LET lt == key_lt(pairwise_decision(rr[1], rr[2]))
              desc == IF k = 1 THEN lt ELSE descending
              continues == (k = 1) \/ (desc = lt)
              n == Len(sorted_docs)
          IN  /\ descending' = desc
              /\ IF continues /\ k + 1 < n
                 THEN /\ k' = k + 1
                      /\ UNCHANGED <<sorted_docs, sp, l, r>>
                 ELSE IF continues
                 THEN /\ sorted_docs' = IF desc THEN reverse_run(sorted_docs, n)
                                        ELSE sorted_docs
                      /\ sp' = "sorted"
                      /\ UNCHANGED <<k, l, r>>
                 ELSE /\ sorted_docs' = IF desc THEN reverse_run(sorted_docs, k)
                                        ELSE sorted_docs
                      /\ sp' = "binarysort"
                      /\ l' = 0 /\ r' = k
                      /\ UNCHANGED k
    /\ cmp_calls' = cmp_calls + 1
    /\ oracle_calls' = oracle_calls + 2
    /\ UNCHANGED <<documents, method, top_k, oracle, pc, i, j, pass, ranking,
                   output, pairs, oracle_failed>>
    /\ UNCHANGED cmpVars

\* list.sort, binarysort: one comparison of the binary search that places
\* the pivot sorted_docs[k] in the sorted prefix sorted_docs[0:k]
SortingBinarySort ==
    /\ pc = "sorting" /\ sp = "binarysort"
    /\ LET p == l + ((r - l) \div 2)
       IN \E rr \in OracleReplies(oracle, At(sorted_docs, k).content,
                                          At(sorted_docs, p).content) :
          LET lt == key_lt(pairwise_decision(rr[1], rr[2]))
              nl == IF lt THEN l ELSE p + 1
              nr == IF lt THEN p ELSE r
          IN  IF nl < nr
              THEN /\ l' = nl /\ r' = nr
                   /\ UNCHANGED <<sorted_docs, sp, k>>
              ELSE /\ sorted_docs' = move_to(sorted_docs, k, nl)
                   /\ IF k + 1 < Len(sorted_docs)
                      THEN k' = k + 1 /\ l' = 0 /\ r' = k + 1 /\ sp' = sp
                      ELSE k' = k /\ l' = nl /\ r' = nr /\ sp' = "sorted"
    /\ cmp_calls' = cmp_calls + 1
    /\ oracle_calls' = oracle_calls + 2
    /\ UNCHANGED <<documents, method, top_k, oracle, pc, i, j, pass, ranking,
                   output, pairs, oracle_failed, descending>>
    /\ UNCHANGED cmpVars

\* sorted() returns
SortingDone ==
    /\ pc = "sorting" /\ sp = "sorted"
    /\ ranking' = sorted_docs
    /\ pc' = "truncate"
    /\ UNCHANGED <<documents, method, top_k, oracle, i, j, pass, sorted_docs,
                   output, pairs, cmp_calls, oracle_calls, oracle_failed>>
    /\ UNCHANGED sortVars /\ UNCHANGED cmpVars

\* ------------------------------------------------------- oracle failure
\* a call of pairwise_decision is about to be made
ComparisonPending ==
    \/ pc = "allpair" /\ j < Len(documents)
    \/ pc = "sliding" /\ pass < num_passes(top_k, Len(documents)) /\ i >= 0
    \/ pc = "sorting" /\ sp \in {"count_run", "binarysort"}

\* lines 102 and 106: the first or the second model_obj.prompt(...).text()
\* raises; the exception leaves pairwise_decision and sort()
OracleFail ==
    /\ ComparisonPending
    /\ \E failing \in {1, 2} : oracle_calls' = oracle_calls + failing
    /\ oracle_failed' = TRUE
    /\ pc' = on_oracle_error(pc)
    /\ UNCHANGED <<documents, method, top_k, oracle, i, j, pass, sorted_docs,
                   ranking, output, pairs, cmp_calls>>
    /\ UNCHANGED sortVars /\ UNCHANGED cmpVars

\* ------------------------------------------------- truncation and output
truncate_if_nonzero(docs, tk) ==
    IF tk = 0 THEN docs
    ELSE IF tk > 0 THEN Slice(docs, 0, IF tk < Len(docs) THEN tk ELSE Len(docs))
    ELSE Slice(docs, 0, IF Len(docs) + tk > 0 THEN Len(docs) + tk ELSE 0)

\* lines 166-167: sorted_docs[:top_k] when top_k > 0
truncate(docs, tk) ==
    IF tk > 0
    THEN Slice(docs, 0, IF tk < Len(docs) THEN tk ELSE Len(docs))
    ELSE docs

Truncate ==
    /\ pc = "truncate"
    /\ sorted_docs' = truncate(sorted_docs, top_k)
    /\ pc' = "output"
    /\ UNCHANGED <<documents, method, top_k, oracle, i, j, pass, ranking,
                   output, pairs, cmp_calls, oracle_calls, oracle_failed>>
    /\ UNCHANGED sortVars /\ UNCHANGED cmpVars

\* lines 170-171: one click.echo of the output loop
Emit ==
    /\ pc = "output"
    /\ Len(output) < Len(sorted_docs)
    /\ output' = Append(output, sorted_docs[Len(output) + 1].content)
    /\ UNCHANGED <<documents, method, top_k, oracle, pc, i, j, pass,
                   sorted_docs, ranking, pairs, cmp_calls, oracle_calls,
                   oracle_failed>>
    /\ UNCHANGED sortVars /\ UNCHANGED cmpVars

\* the output loop is exhausted and sort() returns
Finish ==
    /\ pc = "output"
    /\ Len(output) >= Len(sorted_docs)
    /\ pc' = "done"
    /\ UNCHANGED <<documents, method, top_k, oracle, i, j, pass, sorted_docs,
                   ranking, output, pairs, cmp_calls, oracle_calls,
                   oracle_failed>>
    /\ UNCHANGED sortVars /\ UNCHANGED cmpVars

Next ==
    \/ AllpairStart
    \/ AllpairCompare
    \/ AllpairSort
    \/ SortingStart
    \/ SortingCountRun
    \/ SortingBinarySort
    \/ SortingDone
    \/ SlidingStart
    \/ SlidingCompare
    \/ SlidingEmptyPass
    \/ SlidingDone
    \/ OracleFail
    \/ Truncate
    \/ Emit
    \/ Finish

Spec == Init /\ [][Next]_vars

\* ----------------------------------------- the comparator on raw responses
\* pairwise_decision about to send its first prompt
InitDecision ==
    /\ oracle = "arbitrary"
    /\ documents = MakeDocuments(<<1, 2>>)
    /\ method = "sorting"
    /\ top_k = 0
    /\ pc = "start"
    /\ i = 0 /\ j = 0 /\ pass = 0
    /\ sorted_docs = <<>>
    /\ ranking = <<>>
    /\ output = <<>>
    /\ pairs = <<>>
    /\ cmp_calls = 0 /\ oracle_calls = 0 /\ oracle_failed = FALSE
    /\ SortIdle
    /\ raw1 = <<>> /\ raw2 = <<>> /\ decision = 0
    /\ dpc = "prompt1"

\* line 102: the model answers the prompt with (docA, docB)
Prompt1 ==
    /\ dpc = "prompt1"
    /\ raw1' \in Responses
    /\ dpc' = "prompt2"
    /\ UNCHANGED <<raw2, decision>>
    /\ UNCHANGED rankVars

\* line 106: the model answers the prompt with (docB, docA)
Prompt2 ==
    /\ dpc = "prompt2"
    /\ raw2' \in Responses
    /\ dpc' = "decide"
    /\ UNCHANGED <<raw1, decision>>
    /\ UNCHANGED rankVars

\* lines 109-117
Decide ==
    /\ dpc = "decide"
    /\ decision' = pairwise_decision(raw1, raw2)
    /\ dpc' = "returned"
    /\ UNCHANGED <<raw1, raw2>>
    /\ UNCHANGED rankVars

NextDecision == Prompt1 \/ Prompt2 \/ Decide

SpecDecision == InitDecision /\ [][NextDecision]_vars

\* ================================================================ claims
N == Len(documents)

Finished == pc \in {"truncate", "output", "done"}

Min(a, b) == IF a < b THEN a ELSE b

Contents(docs) == [x \in 1..Len(docs) |-> docs[x].content]

Ids(docs) == [x \in 1..Len(docs) |-> docs[x].id]

Ident(docs) == [x \in 1..Len(docs) |-> <<docs[x].id, docs[x].content>>]

Range(s) == {s[x] : x \in 1..Len(s)}

IsPrefix(a, b) == Len(a) <= Len(b) /\ a = SubSeq(b, 1, Len(a))

RECURSIVE SumScores(_)
SumScores(docs) ==
    IF docs = <<>> THEN 0 ELSE Head(docs).score + SumScores(Tail(docs))

\* the units of a total-order run, most relevant first: the contents of such
\* a run are 1..n and the larger content is the more relevant
TrueOrder(n) == [x \in 1..n |-> n + 1 - x]

\* the raw responses that begin, after trimming and ignoring case, with
\* "line a" / "line b"
FavorsLineA == {R_LineA, R_lineA_lc, R_LineA_more}
FavorsLineB == {R_LineB, R_LINEB_pad}

\* C1: pairwise_decision returns First (1) exactly when the response to
\* (A, B) favors "line a" and the response to (B, A) favors "line b", Second
\* (-1) exactly in the mirror case and Tie (0) for every other pair of
\* responses (same position favored twice, or an unparsable response); it
\* returns one of the three values for every response content.
C1_Decision ==
    dpc = "returned" =>
        /\ decision \in {1, 0, -1}
        /\ decision = 1 <=> (raw1 \in FavorsLineA /\ raw2 \in FavorsLineB)
        /\ decision = -1 <=> (raw1 \in FavorsLineB /\ raw2 \in FavorsLineA)
        /\ (raw1 \in FavorsLineA /\ raw2 \in FavorsLineA) => decision = 0
        /\ (raw1 \notin FavorsLineA \cup FavorsLineB
              \/ raw2 \notin FavorsLineA \cup FavorsLineB) => decision = 0

C1_Witness ==
    /\ dpc = "returned"
    /\ raw1 = R_LineA_more /\ raw2 = R_LINEB_pad
    /\ decision = 1

\* C2: when the allpair strategy has finished, the comparator was evaluated
\* exactly once for each index pair i < j (n(n-1)/2 calls) and the scores
\* sum to n(n-1)/2 points, whatever the oracle answered.
C2_ScoreConservation ==
    (method = "allpair" /\ Finished) =>
        /\ cmp_calls = (N * (N - 1)) \div 2
        /\ Len(pairs) = (N * (N - 1)) \div 2
        /\ Range(pairs) = {pr \in (0..N - 1) \X (0..N - 1) : pr[1] < pr[2]}
        /\ 2 * SumScores(documents) = ScoreOne * N * (N - 1)

C2_Witness ==
    /\ method = "allpair" /\ pc = "done" /\ oracle = "arbitrary"
    /\ N = 3
    /\ Len(pairs) = 3
    /\ documents[1].score = ScoreOne + ScoreHalf
    /\ documents[2].score = 0

\* C3: the allpair ranking lists the units by non-increasing score, and
\* units of equal score in input order.
C3_AllpairOrder ==
    (method = "allpair" /\ Finished) =>
        \A x, y \in 1..Len(ranking) :
            x < y =>
                \/ ranking[x].score > ranking[y].score
                \/ /\ ranking[x].score = ranking[y].score
                   /\ ranking[x].id < ranking[y].id

C3_Witness ==
    /\ method = "allpair" /\ pc = "truncate"
    /\ N = 3
    /\ Ids(ranking) = <<2, 0, 1>>
    /\ ranking[2].score = ranking[3].score

\* C4: with a total-order oracle, after P sliding passes the first min(P, n)
\* positions hold the min(P, n) most relevant units in true order; with
\* P >= n-1 the whole ranking is the true order, and with 0 < top_k < n-1
\* the output is the true top-k in order.
C4_SlidingTop ==
    (method = "sliding" /\ oracle = "total_order" /\ Finished) =>
        /\ SubSeq(Contents(ranking), 1, Min(pass, N))
              = SubSeq(TrueOrder(N), 1, Min(pass, N))
        /\ pass >= N - 1 => Contents(ranking) = TrueOrder(N)
        /\ (pc = "done" /\ 0 < top_k /\ top_k < N - 1) =>
              output = SubSeq(TrueOrder(N), 1, top_k)

C4_Witness ==
    /\ method = "sliding" /\ oracle = "total_order" /\ pc = "done"
    /\ top_k = 1
    /\ Contents(documents) = <<1, 2, 3>>
    /\ Contents(ranking) = <<3, 1, 2>>
    /\ output = <<3>>

\* C5: with a total-order oracle the sorting strategy ranks the units in
\* exactly that order, most relevant first, for every input permutation.
C5_SortingOrder ==
    (method = "sorting" /\ oracle = "total_order" /\ Finished) =>
        Contents(ranking) = TrueOrder(N)

C5_Witness ==
    /\ method = "sorting" /\ oracle = "total_order" /\ pc = "done"
    /\ top_k = 0
    /\ Contents(documents) = <<2, 3, 1>>
    /\ output = <<3, 2, 1>>

\* C6: for every strategy and every oracle the ranking before truncation is
\* a permutation of the input units (ids and contents), and what is output
\* is a prefix of that ranking.
C6_Permutation ==
    Finished =>
        /\ Len(ranking) = N
        /\ Range(Ident(ranking)) = Range(Ident(documents))
        /\ pc \in {"output", "done"} => IsPrefix(Ident(sorted_docs), Ident(ranking))
        /\ IsPrefix(output, Contents(ranking))

C6_Witness ==
    /\ pc = "done" /\ method = "sliding" /\ oracle = "arbitrary"
    /\ top_k = 2
    /\ Ids(ranking) = <<2, 0, 1>>
    /\ Len(output) = 2

\* C7: the number of output lines is min(top_k, n) when top_k > 0 and n
\* when top_k <= 0, for every strategy.
C7_TruncationLaw ==
    pc = "done" =>
        Len(output) = IF top_k > 0 THEN Min(top_k, N) ELSE N

C7_Witness ==
    /\ pc = "done"
    /\ top_k < 0
    /\ N = 3
    /\ Len(output) = 3

\* C8: once an oracle call has failed the run is aborted with no line
\* written and the failed call is the last oracle call; a line is written
\* only after every oracle call of the run has returned.
C8_AbortNoOutput ==
    /\ oracle_failed =>
          /\ pc = "aborted"
          /\ output = <<>>
          /\ oracle_calls \in {2 * cmp_calls + 1, 2 * cmp_calls + 2}
    /\ output # <<>> =>
          /\ pc \in {"output", "done"}
          /\ ~ComparisonPending
          /\ oracle_calls = 2 * cmp_calls

C8_Witness ==
    /\ oracle_failed
    /\ method = "allpair"
    /\ cmp_calls = 2
    /\ oracle_calls = 5

\* C9: when every comparison is a Tie, every strategy ranks the units in
\* input order: allpair gives each unit (n-1) * 0.5 points, sliding never
\* swaps, sorting leaves the order unchanged.
C9_AllTie ==
    oracle = "always_tie" =>
        /\ (method = "sliding" /\ pc \in {"sliding", "truncate"}) =>
              sorted_docs = documents
        /\ Finished =>
              /\ Ids(ranking) = Ids(documents)
              /\ Contents(ranking) = Contents(documents)
              /\ method = "allpair" =>
                    \A x \in 1..N : documents[x].score = (N - 1) * ScoreHalf

C9_Witness ==
    /\ oracle = "always_tie" /\ method = "allpair" /\ pc = "done"
    /\ N = 3
    /\ top_k = 0
    /\ Len(output) = 3
    /\ documents[3].score = ScoreOne

\* C10: the sliding strategy runs exactly P passes of n-1 comparisons each,
\* with P = top_k when top_k > 0 and P = n otherwise (top_k = 0 and top_k < 0).
C10_PassCount ==
    (method = "sliding" /\ Finished) =>
        LET P == IF top_k > 0 THEN top_k ELSE N
        IN  /\ pass = P
            /\ cmp_calls = P * (N - 1)

====
